---- MODULE Spec2Model ----
(***************************************************************************)
(* Model of the pod session utilities (src/src/utils/pod_utils.py):        *)
(* connect_to_pod, run_command_on_pod, close_pod_connection, clean_output  *)
(* and search_logs_in_pod, over a pexpect child whose remote end is the    *)
(* environment.  Text is a sequence of one-character strings.              *)
(***************************************************************************)
EXTENDS Integers, Sequences, FiniteSets, TLC

(***************************************************************************)
(* Characters and text                                                     *)
(***************************************************************************)
ESC == "ESC"
BACKTICK == "BACKTICK"
NL == "\n"
CR == "\r"
SP == " "

\* The value Python's None is modelled by; no text equals it.
None == <<"None">>

UpperSeq ==
  <<"A","B","C","D","E","F","G","H","I","J","K","L","M",
    "N","O","P","Q","R","S","T","U","V","W","X","Y","Z">>
LowerSeq ==
  <<"a","b","c","d","e","f","g","h","i","j","k","l","m",
    "n","o","p","q","r","s","t","u","v","w","x","y","z">>
DigitSeq == <<"0","1","2","3","4","5","6","7","8","9">>

Range(f) == {f[i] : i \in DOMAIN f}
Upper == Range(UpperSeq)
Lower == Range(LowerSeq)
Digits == Range(DigitSeq)

\* str.strip() / str.isspace(): the whitespace characters of the model
Whitespace == {" ", "\n", "\r", "\t"}

\* \w of the re module
WordChars == Upper \cup Lower \cup Digits \cup {"_"}

ToLower(c) ==
  IF c \in Upper THEN LowerSeq[CHOOSE k \in 1..26 : UpperSeq[k] = c] ELSE c

RECURSIVE LStrip(_)
LStrip(s) ==
  IF s # <<>> /\ s[1] \in Whitespace THEN LStrip(Tail(s)) ELSE s

RECURSIVE RStrip(_)
RStrip(s) ==
  IF s # <<>> /\ s[Len(s)] \in Whitespace
    THEN RStrip(SubSeq(s, 1, Len(s) - 1))
    ELSE s

\* str.strip()
Strip(s) == RStrip(LStrip(s))

\* str.splitlines(): breaks at \n, \r and \r\n; no final empty line
SplitLines(s) ==
  LET \* where a line break starts (the \n of a \r\n does not start one)
      breaks == SelectSeq([k \in 1..Len(s) |-> k],
                          LAMBDA k : /\ s[k] \in {NL, CR}
                                     /\ ~(s[k] = NL /\ k > 1 /\ s[k - 1] = CR))
      \* the last index of the break that starts at k
      breakEnd(k) == IF s[k] = CR /\ k < Len(s) /\ s[k + 1] = NL
                       THEN k + 1 ELSE k
      start(m) == IF m = 1 THEN 1 ELSE breakEnd(breaks[m - 1]) + 1
      ended == [m \in 1..Len(breaks) |-> SubSeq(s, start(m), breaks[m] - 1)]
      rest == SubSeq(s, start(Len(breaks) + 1), Len(s))
  IN IF rest = <<>> THEN ended ELSE Append(ended, rest)

\* sep.join(lines)
RECURSIVE Join(_, _)
Join(lines, sep) ==
  IF lines = <<>> THEN <<>>
  ELSE IF Len(lines) = 1 THEN lines[1]
  ELSE lines[1] \o sep \o Join(Tail(lines), sep)

(***************************************************************************)
(* clean_output                                                            *)
(***************************************************************************)
\* [@-_]
ClsIntro == {"@", "[", "\\", "]", "^", "_"} \cup Upper
\* [0-?]
ClsParam == {":", ";", "<", "=", ">", "?"} \cup Digits
\* [ -/]
ClsInter ==
  {" ", "!", "\"", "#", "$", "%", "&", "'", "(", ")", "*", "+", ",", "-", ".", "/"}
\* [@-~]
ClsFinal == ClsIntro \cup Lower \cup {BACKTICK, "{", "|", "}", "~"}

\* first index >= i whose character is not in cls (Len(s)+1 when none)
RECURSIVE SkipClass(_, _, _)
SkipClass(s, i, cls) ==
  IF i <= Len(s) /\ s[i] \in cls THEN SkipClass(s, i + 1, cls) ELSE i

\* index of the last character of a match of \x1B[@-_][0-?]*[ -/]*[@-~]
\* starting at i, or 0 when there is none (the three classes are disjoint,
\* so the greedy match is the only one)
AnsiMatchEnd(s, i) ==
  IF i + 1 <= Len(s) /\ s[i] = ESC /\ s[i + 1] \in ClsIntro
    THEN LET j == SkipClass(s, SkipClass(s, i + 2, ClsParam), ClsInter)
         IN IF j <= Len(s) /\ s[j] \in ClsFinal THEN j ELSE 0
    ELSE 0

\* ansi_escape.sub(empty, output)
\* (from index i on: the text up to the next match is kept, the match is
\* dropped, and the scan goes on after it)
RECURSIVE RemoveAnsiFrom(_, _)
RemoveAnsiFrom(s, i) ==
  LET starts == { j \in i..Len(s) : AnsiMatchEnd(s, j) # 0 }
  IN IF starts = {} THEN SubSeq(s, i, Len(s))
     ELSE LET j == CHOOSE a \in starts : \A b \in starts : a <= b
          IN SubSeq(s, i, j - 1) \o RemoveAnsiFrom(s, AnsiMatchEnd(s, j) + 1)

RemoveAnsi(s) == RemoveAnsiFrom(s, 1)

PromptLiterals ==
  { <<"o","o","t","@">>,
    <<"n","e","t","r","a","d","y","n","e","-">>,
    <<"h","o","m","e","r","o","o","t">>,
    <<"r","o","o","t","@">> }

LiteralAt(s, i, lit) ==
  /\ i + Len(lit) - 1 <= Len(s)
  /\ \A k \in 1..Len(lit) : ToLower(s[i + k - 1]) = lit[k]

\* \b(?:oot@|netradyne-|homeroot|root@) matches at i (re.IGNORECASE)
PromptAt(s, i) ==
  /\ i <= Len(s)
  /\ (i = 1 \/ s[i - 1] \notin WordChars)
  /\ \E lit \in PromptLiterals : LiteralAt(s, i, lit)

\* first index >= i holding a newline (Len(s)+1 when none): end of [^\n]*
RECURSIVE LineEnd(_, _)
LineEnd(s, i) ==
  IF i <= Len(s) /\ s[i] # NL THEN LineEnd(s, i + 1) ELSE i

\* prompt_pattern.sub(empty, output)
\* (from index i on: the text up to the next match is kept, the match,
\* which runs to the end of its line, is dropped)
RECURSIVE RemovePromptsFrom(_, _)
RemovePromptsFrom(s, i) ==
  LET starts == { j \in i..Len(s) : PromptAt(s, j) }
  IN IF starts = {} THEN SubSeq(s, i, Len(s))
     ELSE LET j == CHOOSE a \in starts : \A b \in starts : a <= b
          IN SubSeq(s, i, j - 1) \o RemovePromptsFrom(s, LineEnd(s, j))

RemovePrompts(s) == RemovePromptsFrom(s, 1)

\* re.sub(r'\n+', '\n', output): of every run of newlines one is kept
CollapseNewlines(s) ==
  LET kept == SelectSeq([k \in 1..Len(s) |-> k],
                        LAMBDA k : ~(s[k] = NL /\ k < Len(s) /\ s[k + 1] = NL))
  IN [m \in 1..Len(kept) |-> s[kept[m]]]

clean_output(output) ==
  Strip(CollapseNewlines(RemovePrompts(RemoveAnsi(output))))

(***************************************************************************)
(* run_command_on_pod: the text it makes of child.before                   *)
(***************************************************************************)
\* f"cd {directory} && {cmd}" if directory else cmd   (None and "" are <<>>)
FullCmd(cmd, directory) ==
  IF directory # <<>>
    THEN <<"c", "d", " ">> \o directory \o <<" ", "&", "&", " ">> \o cmd
    ELSE cmd

\* remove echoed command line
DropEcho(output_lines, full_cmd) ==
  IF output_lines # <<>> /\ Strip(output_lines[1]) = Strip(full_cmd)
    THEN Tail(output_lines)
    ELSE output_lines

\* remove leading empty lines
RECURSIVE DropLeadingBlank(_)
DropLeadingBlank(output_lines) ==
  IF output_lines # <<>> /\ Strip(output_lines[1]) = <<>>
    THEN DropLeadingBlank(Tail(output_lines))
    ELSE output_lines

\* lines 65-79: the value returned once the wait is over
ProcessBefore(before, full_cmd) ==
  LET output_lines == DropLeadingBlank(DropEcho(SplitLines(before), full_cmd))
      output == clean_output(Strip(Join(output_lines, <<NL>>)))
  IN IF output # <<>> THEN output ELSE None

(***************************************************************************)
(* Bounds of the model                                                     *)
(***************************************************************************)
\* executes started on the one session
MaxCmds == 2
\* lines the remote shell emits in answer to one command line
MaxRespLines == 1
\* calls of close_pod_connection
MaxCloses == 2
\* largest timeout argument of search_logs_in_pod, in seconds
MaxTimeout == 2
\* largest interval argument of search_logs_in_pod, in seconds
MaxInterval == 2
\* lines one grep prints
MaxGrepLines == 2
\* seconds a wait that ends by prompt match or EOF can take
MaxPollDelay == 1
\* time.time() when the model starts, in seconds
Now0 == 1

(***************************************************************************)
(* The pexpect child and its remote end                                    *)
(***************************************************************************)
VARIABLES
  pc,         \* where the caller is: "idle", "connect1", "connect2", "busy"
  session,    \* "none": no child returned to the caller; "held": returned
  closed,     \* child.closed
  flag_eof,   \* child.flag_eof: a read has hit end-of-stream
  buffer,     \* child.buffer: text read from the child and not yet consumed
  pending,    \* text the remote end has emitted and the child has not read
  remoteEnd,  \* the remote end closes the stream once pending is read
  full_cmd,   \* the command line of the execute in progress (or last one)
  result,     \* value returned by the last run_command_on_pod
  lastOp,     \* last operation that ended: "none","connect","execute","close"
  outcome,    \* how it ended: "none", "returned", "raised"
  waitEnd,    \* what ended the last expect: "none","match","eof","timeout"
  nsent,      \* executes started
  nclose      \* closes called

sessionVars ==
  <<pc, session, closed, flag_eof, buffer, pending, remoteEnd, full_cmd,
    result, lastOp, outcome, waitEnd, nsent, nclose>>

VARIABLES
  spc,              \* where search_logs_in_pod is: "idle","test","sleep","done"
  clock,            \* time.time(), in seconds
  start_timestamp,  \* the argument, or its default, in milliseconds
  end_time,         \* time.time() + timeout at the call
  interval,         \* the argument
  sresult,          \* value returned by search_logs_in_pod
  sinceGiven,       \* history: the caller passed start_timestamp
  startClock,       \* history: clock at the call
  s_timeout,        \* history: the timeout argument
  npolls,           \* history: search commands run
  lastStep,         \* history: last step of the loop: "none","poll","sleep","exit"
  everQualified     \* history: some poll's output had a qualifying line

searchVars ==
  <<spc, clock, start_timestamp, end_time, interval, sresult, sinceGiven,
    startClock, s_timeout, npolls, lastStep, everQualified>>

VARIABLES
  probe,         \* the probe helper called last: "none","count","md5","legacy","uptime",
                 \* or "run" for a direct run_command_on_pod
  pairsLeft,     \* verify_file_presence: (directory, pattern) pairs still to do
  probeArg,      \* ota_version / max_diff_seconds of the call; for "run", the
                 \* text the command printed (child.before)
  probeValue,    \* what the helper returned (results so far, for "count"),
                 \* or the message of the AssertionError it raised ("legacy")
  probeOutcome,  \* "none","returned","AssertionError","AttributeError"
  raw,           \* the text given to clean_output
  cleaned,       \* what the last clean_output returned
  previous,      \* the argument of the last clean_output
  npasses        \* clean_output calls made on the text

helperVars ==
  <<probe, pairsLeft, probeArg, probeValue, probeOutcome, raw, cleaned,
    previous, npasses>>

VARIABLES
  wpc,           \* wait_for_ping: "idle","test","sleep","done"
  start_time,    \* time.time() when wait_for_ping was called
  w_timeout,     \* its timeout argument
  w_interval,    \* its interval argument
  w_result,      \* what it returned: "none" (not yet), "True", "False"
  w_outcome,     \* "none", "returned", or "raised" (an exception left it)
  nattempts,     \* ping attempts made
  lastAttempt,   \* how the last attempt ended: "none","ok","fail","exception"
  succeeded      \* some attempt ended with return code 0

pingVars ==
  <<wpc, start_time, w_timeout, w_interval, w_result, w_outcome, nattempts,
    lastAttempt, succeeded>>

VARIABLES
  cwd,           \* the working directory of the remote shell
  ranIn,         \* the directory the command of the last line sent ran in,
                 \* NotRun when it did not run
  lastCd         \* the directory the last "cd <dir> &&" that succeeded went to,
                 \* None when no line sent had one

shellVars == <<cwd, ranIn, lastCd>>

vars == <<sessionVars, searchVars, helperVars, pingVars, shellVars>>

\* r'[#\$] ' : index of the first match in s, 0 when there is none
FindPromptFrom(s, i) ==
  LET hits == { j \in i..(Len(s) - 1) : s[j] \in {"#", "$"} /\ s[j + 1] = SP }
  IN IF hits = {} THEN 0
     ELSE CHOOSE a \in hits : \A b \in hits : a <= b

FindPrompt(s) == FindPromptFrom(s, 1)

Take(s, k) == SubSeq(s, 1, k)
Drop(s, k) == SubSeq(s, k + 1, Len(s))

\* The remote end writes whole lines and whole prompts, and a write arrives
\* in one piece: the places of pend a read can stop at
CutPoints(pend) ==
  { k \in 0..Len(pend) :
      \/ k = 0
      \/ k = Len(pend)
      \/ pend[k] = NL
      \/ (k > 1 /\ pend[k] = SP /\ pend[k - 1] \in {"#", "$"}) }

\* child.expect(patterns, timeout=None): the wait has no timeout
ExpectOutcomes_NoTimeout(buf, pend, rend, eofSeen, withEOF, withTIMEOUT) ==
  LET all == buf \o pend
      p == FindPrompt(all)
      seen(k) == p # 0 /\ p + 1 <= Len(buf) + k
      cuts == CutPoints(pend)
  IN IF p # 0
       THEN LET k == CHOOSE j \in cuts :
                       /\ seen(j)
                       /\ \A i \in cuts : i < j => ~seen(i)
            IN { [kind |-> "match",
                  before |-> Take(all, p - 1),
                  buffer |-> SubSeq(all, p + 2, Len(buf) + k),
                  pending |-> Drop(pend, k),
                  eof |-> eofSeen] }
       ELSE IF rend
         THEN { [kind |-> IF withEOF THEN "eof" ELSE "raiseEOF",
                 before |-> all,
                 buffer |-> <<>>,
                 pending |-> <<>>,
                 eof |-> TRUE] }
         ELSE {}

\* child.expect(patterns, timeout=30) with the prompt pattern first in the
\* list: the ways the wait can end when k more characters arrive before it
\* does.  A match ends the wait as soon as the text read holds one; on EOF
\* the buffer is handed over and emptied; on TIMEOUT the buffer is handed
\* over and kept.  withEOF / withTIMEOUT: the pattern list names pexpect.EOF /
\* pexpect.TIMEOUT, so that event is returned as an index instead of raised.
ExpectOutcomes(buf, pend, rend, eofSeen, withEOF, withTIMEOUT) ==
  LET all == buf \o pend
      p == FindPrompt(all)
      \* the prompt match is in what has been read once k more have arrived
      seen(k) == p # 0 /\ p + 1 <= Len(buf) + k
      cuts == CutPoints(pend)
      Match == IF p = 0 THEN {}
               ELSE LET k == CHOOSE j \in cuts :
                                /\ seen(j)
                                /\ \A i \in cuts : i < j => ~seen(i)
                    IN { [kind |-> "match",
                          before |-> Take(all, p - 1),
                          buffer |-> SubSeq(all, p + 2, Len(buf) + k),
                          pending |-> Drop(pend, k),
                          eof |-> eofSeen] }
      Eof == IF p = 0 /\ rend
               THEN { [kind |-> IF withEOF THEN "eof" ELSE "raiseEOF",
                       before |-> all,
                       buffer |-> <<>>,
                       pending |-> <<>>,
                       eof |-> TRUE] }
               ELSE {}
      Timeout == IF eofSeen THEN {}
                 ELSE { [kind |-> IF withTIMEOUT THEN "timeout"
                                  ELSE "raiseTIMEOUT",
                         before |-> buf \o Take(pend, k),
                         buffer |-> buf \o Take(pend, k),
                         pending |-> Drop(pend, k),
                         eof |-> FALSE] :
                        k \in { j \in cuts : ~seen(j) } }
  IN Match \cup Eof \cup Timeout

PromptText == <<"$", SP>>

\* What the remote end may emit for the handshake: up to two prompts
HandshakeStreams == { <<>>, PromptText, PromptText \o PromptText }

\* The one line of output the n-th command prints: its own digit
Payload(n) == <<DigitSeq[n + 1]>>

\* The lines the remote shell may emit in answer to the n-th command line:
\* the echo of the line, a blank line, the payload
RespLines(n, line) == { line, <<>>, Payload(n) }

RECURSIVE LineSeqs(_, _)
LineSeqs(vocab, n) ==
  IF n = 0 THEN { <<>> }
  ELSE LET shorter == LineSeqs(vocab, n - 1)
       IN shorter \cup
          { Append(ls, l) : ls \in { x \in shorter : Len(x) = n - 1 },
                            l \in vocab }

RECURSIVE Lines2Text(_)
Lines2Text(ls) ==
  IF ls = <<>> THEN <<>> ELSE ls[1] \o <<NL>> \o Lines2Text(Tail(ls))

\* What the remote shell may emit in answer to the n-th command line: up to
\* MaxRespLines lines and the next prompt; or at most one line and then
\* nothing more for now, or the end of the stream
Responses(n, line) ==
  { [text |-> Lines2Text(ls) \o PromptText, end |-> FALSE] :
      ls \in LineSeqs(RespLines(n, line), MaxRespLines) }
  \cup
  { [text |-> Lines2Text(ls), end |-> e] :
      ls \in LineSeqs(RespLines(n, line), 1), e \in BOOLEAN }

\* once the stream has ended the remote shell answers nothing
NoResponse == { [text |-> <<>>, end |-> TRUE] }

Cmds == { <<"c">> }
Dirs == { <<>>, <<"d">> }

(***************************************************************************)
(* The remote shell taking a command line                                  *)
(***************************************************************************)
\* the directory the remote shell starts in; directories are written as
\* paths from it
StartDir == <<>>

\* the directories that exist on the remote side: the start directory and
\* its subdirectory d
RemoteDirs == { StartDir, <<"/", "d">> }

\* the command of the line did not run
NotRun == <<"n", "o", "t", " ", "r", "u", "n">>

\* the <dir> of a line "cd <dir> && <cmd>" (line 58, and the command lines
\* of lines 234, 260, 313); <<>> for a line of another form
CdTarget(line) ==
  LET ands == { j \in 4..(Len(line) - 3) :
                  SubSeq(line, j, j + 3) = <<" ", "&", "&", " ">> }
  IN IF Len(line) >= 3 /\ SubSeq(line, 1, 3) = <<"c", "d", " ">> /\ ands # {}
       THEN SubSeq(line, 4, (CHOOSE a \in ands : \A b \in ands : a <= b) - 1)
       ELSE <<>>

\* the directory a relative <dir> names in the working directory dir
Resolve(dir, target) == dir \o <<"/">> \o target

\* a shell that runs every line in a subshell: the working directory is
\* that of the start again for the next line
ShellTakes_Subshell(line, alive) ==
  LET target == CdTarget(line)
      to == Resolve(StartDir, target)
  IN IF ~alive
       THEN /\ ranIn' = NotRun
            /\ UNCHANGED <<cwd, lastCd>>
     ELSE IF target = <<>>
       THEN /\ ranIn' = StartDir
            /\ UNCHANGED <<cwd, lastCd>>
     ELSE IF to \in RemoteDirs
       THEN /\ cwd' = StartDir
            /\ ranIn' = to
            /\ lastCd' = to
     ELSE /\ ranIn' = NotRun
          /\ UNCHANGED <<cwd, lastCd>>

\* The one live shell of the session (lines 14-24: "bash" under ssh -tt)
\* runs the line: a line without "cd" runs in the working directory; in
\* "cd <dir> && <cmd>" the cd changes the working directory of the shell
\* and <cmd> runs there, or the cd fails and <cmd> is not run. A shell
\* that has ended runs nothing.
ShellTakes(line, alive) ==
  LET target == CdTarget(line)
      to == Resolve(cwd, target)
  IN IF ~alive
       THEN /\ ranIn' = NotRun
            /\ UNCHANGED <<cwd, lastCd>>
     ELSE IF target = <<>>
       THEN /\ ranIn' = cwd
            /\ UNCHANGED <<cwd, lastCd>>
     ELSE IF to \in RemoteDirs
       THEN /\ cwd' = to
            /\ ranIn' = to
            /\ lastCd' = to
     ELSE /\ ranIn' = NotRun
          /\ UNCHANGED <<cwd, lastCd>>

(***************************************************************************)
(* connect_to_pod                                                          *)
(***************************************************************************)
\* lines 24-25: spawn the transport and send "stty -echo"
ConnectStart ==
  /\ UNCHANGED shellVars
  /\ UNCHANGED pingVars
  /\ UNCHANGED <<searchVars, helperVars>>
  /\ pc = "idle" /\ session = "none" /\ lastOp = "none"
  /\ \E hs \in HandshakeStreams, rend \in BOOLEAN :
       /\ pending' = hs
       /\ remoteEnd' = rend
  /\ pc' = "connect1"
  /\ UNCHANGED <<session, closed, flag_eof, buffer, full_cmd, result, lastOp,
                 outcome, waitEnd, nsent, nclose>>

\* line 26: child.expect([prompt]) -- EOF and TIMEOUT are raised
ConnectExpect1 ==
  /\ UNCHANGED shellVars
  /\ UNCHANGED pingVars
  /\ UNCHANGED <<searchVars, helperVars>>
  /\ pc = "connect1"
  /\ \E o \in ExpectOutcomes(buffer, pending, remoteEnd, flag_eof, FALSE, FALSE) :
       /\ buffer' = o.buffer
       /\ pending' = o.pending
       /\ flag_eof' = o.eof
       /\ IF o.kind = "match"
            THEN /\ pc' = "connect2"
                 /\ waitEnd' = "match"
                 /\ UNCHANGED <<lastOp, outcome>>
            ELSE /\ pc' = "idle"
                 /\ waitEnd' = IF o.kind = "raiseEOF" THEN "eof" ELSE "timeout"
                 /\ lastOp' = "connect"
                 /\ outcome' = "raised"
  /\ UNCHANGED <<session, closed, remoteEnd, full_cmd, result, nsent, nclose>>

\* lines 30-32: child.expect([prompt, EOF, TIMEOUT]); return child
ConnectExpect2 ==
  /\ UNCHANGED shellVars
  /\ UNCHANGED pingVars
  /\ UNCHANGED <<searchVars, helperVars>>
  /\ pc = "connect2"
  /\ \E o \in ExpectOutcomes(buffer, pending, remoteEnd, flag_eof, TRUE, TRUE) :
       /\ buffer' = o.buffer
       /\ pending' = o.pending
       /\ flag_eof' = o.eof
       /\ waitEnd' = o.kind
  /\ session' = "held"
  /\ pc' = "idle"
  /\ lastOp' = "connect"
  /\ outcome' = "returned"
  /\ UNCHANGED <<closed, remoteEnd, full_cmd, result, nsent, nclose>>

(***************************************************************************)
(* run_command_on_pod                                                      *)
(***************************************************************************)
\* lines 58-59: build the line and child.sendline it.  On a closed child the
\* write is to descriptor -1 and raises OSError.
ExecSend ==
  /\ UNCHANGED pingVars
  /\ UNCHANGED <<searchVars, helperVars>>
  /\ pc = "idle" /\ session = "held" /\ nsent < MaxCmds
  /\ nsent' = nsent + 1
  /\ \E cmd \in Cmds, directory \in Dirs :
       /\ full_cmd' = FullCmd(cmd, directory)
       /\ IF closed
            THEN /\ lastOp' = "execute"
                 /\ outcome' = "raised"
                 /\ UNCHANGED <<pc, pending, remoteEnd>>
                 /\ ranIn' = NotRun
                 /\ UNCHANGED <<cwd, lastCd>>
            ELSE /\ pc' = "busy"
                 /\ UNCHANGED <<lastOp, outcome>>
                 /\ ShellTakes(full_cmd', ~remoteEnd)
                 /\ \E r \in IF remoteEnd THEN NoResponse
                                ELSE Responses(nsent', full_cmd') :
                      /\ pending' = pending \o r.text
                      /\ remoteEnd' = r.end
  /\ UNCHANGED <<session, closed, flag_eof, buffer, result, waitEnd, nclose>>

\* lines 60-79: wait for the prompt, EOF or TIMEOUT, then make the result
ExecWait ==
  /\ UNCHANGED shellVars
  /\ UNCHANGED pingVars
  /\ UNCHANGED <<searchVars, helperVars>>
  /\ pc = "busy"
  /\ \E o \in ExpectOutcomes(buffer, pending, remoteEnd, flag_eof, TRUE, TRUE) :
       /\ buffer' = o.buffer
       /\ pending' = o.pending
       /\ flag_eof' = o.eof
       /\ waitEnd' = IF o.kind = "raiseTIMEOUT" THEN "timeout" ELSE o.kind
       /\ result' = IF o.kind = "raiseTIMEOUT"
                      THEN <<>>
                      ELSE ProcessBefore(o.before, full_cmd)
  /\ pc' = "idle"
  /\ lastOp' = "execute"
  /\ outcome' = "returned"
  /\ UNCHANGED <<session, closed, remoteEnd, full_cmd, nsent, nclose>>

(***************************************************************************)
(* close_pod_connection                                                    *)
(***************************************************************************)
\* lines 121-122: child.sendline("exit"); child.close()
ClosePod ==
  /\ UNCHANGED shellVars
  /\ UNCHANGED pingVars
  /\ UNCHANGED <<searchVars, helperVars>>
  /\ pc = "idle" /\ session = "held" /\ nclose < MaxCloses
  /\ nclose' = nclose + 1
  /\ lastOp' = "close"
  /\ IF closed
       THEN /\ outcome' = "raised"
            /\ UNCHANGED <<closed, remoteEnd>>
       ELSE /\ outcome' = "returned"
            /\ closed' = TRUE
            /\ remoteEnd' = TRUE
  /\ UNCHANGED <<pc, session, flag_eof, buffer, pending, full_cmd, result,
                 waitEnd, nsent>>

\* no search_logs_in_pod call has been made
SearchIdle ==
  /\ spc = "idle"
  /\ clock = Now0
  /\ start_timestamp = 0
  /\ end_time = 0
  /\ interval = 0
  /\ sresult = None
  /\ sinceGiven = FALSE
  /\ startClock = 0
  /\ s_timeout = 0
  /\ npolls = 0
  /\ lastStep = "none"
  /\ everQualified = FALSE

\* no probe helper has been called
ProbeIdle ==
  /\ probe = "none"
  /\ pairsLeft = 0
  /\ probeArg = None
  /\ probeValue = None
  /\ probeOutcome = "none"

\* clean_output has been given no text
SanitizeIdle ==
  /\ raw = <<>>
  /\ cleaned = <<>>
  /\ previous = <<>>
  /\ npasses = 0

ShellIdle ==
  /\ cwd = StartDir
  /\ ranIn = NotRun
  /\ lastCd = None

PingIdle ==
  /\ wpc = "idle"
  /\ start_time = 0
  /\ w_timeout = 0
  /\ w_interval = 0
  /\ w_result = "none"
  /\ w_outcome = "none"
  /\ nattempts = 0
  /\ lastAttempt = "none"
  /\ succeeded = FALSE

Init ==
  /\ pc = "idle"
  /\ session = "none"
  /\ closed = FALSE
  /\ flag_eof = FALSE
  /\ buffer = <<>>
  /\ pending = <<>>
  /\ remoteEnd = FALSE
  /\ full_cmd = <<>>
  /\ result = None
  /\ lastOp = "none"
  /\ outcome = "none"
  /\ waitEnd = "none"
  /\ nsent = 0
  /\ nclose = 0
  /\ SearchIdle
  /\ ProbeIdle
  /\ PingIdle
  /\ ShellIdle
  /\ SanitizeIdle

Next ==
  \/ ConnectStart
  \/ ConnectExpect1
  \/ ConnectExpect2
  \/ ExecSend
  \/ ExecWait
  \/ ClosePod

Spec == Init /\ [][Next]_vars

(***************************************************************************)
(* Properties of the session                                               *)
(***************************************************************************)
\* an execute has just returned to the caller
ExecReturned == pc = "idle" /\ lastOp = "execute" /\ outcome = "returned"

\* C1: when the wait of an execute ended by timeout, the execute returns an
\* empty result ("" or None), never text read before the timeout.
C1_TimeoutGivesEmpty ==
  (ExecReturned /\ waitEnd = "timeout") => result \in {<<>>, None}

\* The characters the answer to the n-th command line can hold
OwnChars(n, line) == Range(line) \cup Range(Payload(n)) \cup Whitespace

\* C2: the text an execute returns holds only what the remote shell emitted
\* for that execute's own command line, never the output of an earlier one.
C2_OnlyOwnOutput ==
  (ExecReturned /\ result # None) => Range(result) \subseteq OwnChars(nsent, full_cmd)

\* C3: connect_to_pod returns the child only when the last wait of the
\* handshake ended by a prompt match, so the child is live.
C3_ConnectOnlyOnPrompt ==
  (lastOp = "connect" /\ outcome = "returned") =>
     (session = "held" /\ waitEnd = "match" /\ ~flag_eof)

\* The state of the Session: CLOSED when there is no child, the child is
\* closed or its stream has ended
SessionState ==
  IF pc \in {"connect1", "connect2"} THEN "CONNECTING"
  ELSE IF pc = "busy" THEN "BUSY"
  ELSE IF session = "none" \/ closed \/ flag_eof THEN "CLOSED"
  ELSE "READY"

AllowedTransition(s, t, how) ==
  \/ s = t
  \/ <<s, t>> \in { <<"CLOSED", "CONNECTING">>, <<"CONNECTING", "READY">>,
                    <<"CONNECTING", "CLOSED">>, <<"READY", "BUSY">>,
                    <<"READY", "CLOSED">> }
  \/ (s = "BUSY" /\ t = "READY" /\ how \in {"match", "timeout"})
  \/ (s = "BUSY" /\ t = "CLOSED" /\ how = "eof")

\* C4: the Session only makes the transitions CLOSED -> CONNECTING -> READY,
\* READY -> BUSY, BUSY -> READY on prompt match or timeout, BUSY -> CLOSED on
\* end-of-stream and READY -> CLOSED on close (a failed connect may also go
\* CONNECTING -> CLOSED).
C4_OnlyListedTransitions ==
  [][AllowedTransition(SessionState, SessionState', waitEnd')]_vars

\* C5: close_pod_connection never raises, also when called again or on a
\* child whose stream has ended, and leaves the child closed.
C5_CloseIdempotent ==
  lastOp = "close" => (outcome = "returned" /\ closed)

\* C6: the text an execute returns has no line that is the echoed command
\* line and does not start with a blank line.
C6_NoEchoNoLeadingBlank ==
  (ExecReturned /\ result # None) =>
     /\ \A i \in DOMAIN SplitLines(result) :
          Strip(SplitLines(result)[i]) # Strip(full_cmd)
     /\ result # <<>> => result[1] \notin Whitespace

\* line 61: child.expect returns and with it the execute: the step of
\* ExecWait without the text it makes of child.before.  It is enabled exactly
\* when ExecWait is, and a step of Next is one exactly when it is an
\* ExecWait step.
ExpectReturns ==
  /\ pc = "busy"
  /\ pc' = "idle"
  /\ \E o \in ExpectOutcomes(buffer, pending, remoteEnd, flag_eof, TRUE, TRUE) :
       /\ buffer' = o.buffer
       /\ pending' = o.pending
       /\ flag_eof' = o.eof

\* The session with its waits running to their end: child.expect blocks the
\* caller until the prompt, EOF or the 30 s timeout, and then returns
SpecLive == Init /\ [][Next]_vars /\ WF_pc(ExpectReturns)

\* C17: every execute ends its wait, by the prompt match, by end-of-stream
\* or by the timeout, and returns to the caller; no execute stays in its
\* wait forever.
C17_WaitEndsByOneEvent ==
  /\ [][(pc = "busy" /\ pc' # "busy") =>
         /\ waitEnd' \in {"match", "eof", "timeout"}
         /\ pc' = "idle" /\ lastOp' = "execute" /\ outcome' = "returned"]_vars
  /\ (pc = "busy") ~> (pc = "idle")

\* C17 witness: the second execute on the session ended its wait by the
\* timeout and returned
C17_Witness ==
  /\ pc = "idle" /\ lastOp = "execute" /\ outcome = "returned"
  /\ nsent = 2 /\ waitEnd = "timeout"

(***************************************************************************)
(* search_logs_in_pod                                                      *)
(***************************************************************************)
\* timeout=30 of the expect in run_command_on_pod, in seconds
ExpectTimeout == 30

\* f"grep -Hn '{search_term}' {log_dir}/*.log 2>/dev/null || true"
GrepCmd(search_term, log_dir) ==
  <<"g","r","e","p"," ","-","H","n"," ","'">> \o search_term \o <<"'"," ">> \o log_dir
    \o <<"/","*",".","l","o","g"," ","2",">","/","d","e","v","/","n","u","l","l"," ","|","|"," ","t","r","u","e">>

SearchTerm == <<"m">>
LogDir == <<"l">>

\* the command line of every poll (line 171)
GrepLine == GrepCmd(SearchTerm, LogDir)

\* str.split(sep): the fields of s, at least one
RECURSIVE SplitOnFrom(_, _, _, _, _)
SplitOnFrom(s, sep, i, cur, acc) ==
  IF i > Len(s) THEN Append(acc, cur)
  ELSE IF s[i] = sep THEN SplitOnFrom(s, sep, i + 1, <<>>, Append(acc, cur))
  ELSE SplitOnFrom(s, sep, i + 1, Append(cur, s[i]), acc)

SplitOn(s, sep) == SplitOnFrom(s, sep, 1, <<>>, <<>>)

\* str.isdigit() on ASCII text
IsDigit(s) == s # <<>> /\ \A i \in DOMAIN s : s[i] \in Digits

DigitValue(c) == (CHOOSE k \in 1..10 : DigitSeq[k] = c) - 1

\* int(s) for an all-digit s
RECURSIVE ToInt(_)
ToInt(s) ==
  IF s = <<>> THEN 0
  ELSE 10 * ToInt(SubSeq(s, 1, Len(s) - 1)) + DigitValue(s[Len(s)])

\* the comparison of line 186 made strict
TimestampPasses_Strict(timestamp, since) == timestamp > since

\* line 186: timestamp >= start_timestamp
TimestampPasses(timestamp, since) == timestamp >= since

\* lines 178-188: the line is appended to filtered_lines
LineKept(line, since) ==
  LET parts == SplitOn(line, ":")
  IN /\ Len(parts) > 2
     /\ IsDigit(parts[3])
     /\ TimestampPasses(ToInt(parts[3]), since)

\* lines 176-188: filtered_lines for the lines of output
RECURSIVE FilterLines(_, _)
FilterLines(lines, since) ==
  IF lines = <<>> THEN <<>>
  ELSE IF LineKept(lines[1], since)
    THEN <<lines[1]>> \o FilterLines(Tail(lines), since)
    ELSE FilterLines(Tail(lines), since)

\* lines 174-193 returning the whole output once a line passed the filter
PollResult_Whole(output, since) ==
  IF output \in {None, <<>>} THEN None
  ELSE IF FilterLines(SplitLines(output), since) # <<>> THEN output ELSE None

\* lines 174-193: what a poll whose execute returned output makes of it:
\* the text to return, or None to go on
PollResult(output, since) ==
  IF output \in {None, <<>>} THEN None
  ELSE LET filtered_lines == FilterLines(SplitLines(output), since)
       IN IF filtered_lines # <<>> THEN Join(filtered_lines, <<NL>>) ELSE None

\* n as four decimal digits
Digits4(n) ==
  << DigitSeq[((n \div 1000) % 10) + 1], DigitSeq[((n \div 100) % 10) + 1],
     DigitSeq[((n \div 10) % 10) + 1], DigitSeq[(n % 10) + 1] >>

\* The lines a grep may print: path:lineno:timestamp:text with a timestamp
\* just before or at Now0 seconds, a line whose third field is text, and a
\* line with two fields
GrepLines ==
  { <<"f", ":", "1", ":">> \o Digits4(1000 * Now0 - 1) \o <<":", "m">>,
    <<"f", ":", "2", ":">> \o Digits4(1000 * Now0) \o <<":", "M">>,
    <<"f", ":", "4", ":", "m">>,
    <<"f", ":", "5">> }

\* What the remote shell may emit in answer to one grep command line (echo
\* is off): up to MaxGrepLines lines and the prompt; or at most one line and
\* then nothing more for now, or the end of the stream
GrepResponses ==
  { [text |-> Lines2Text(ls) \o PromptText, end |-> FALSE] :
      ls \in LineSeqs(GrepLines, MaxGrepLines) }
  \cup
  { [text |-> Lines2Text(ls), end |-> e] :
      ls \in LineSeqs(GrepLines, 1), e \in BOOLEAN }

\* the values a caller passes for start_timestamp besides None, in ms
Sinces == { 1000 * Now0 - 1, 1000 * Now0 }

\* the third colon-delimited field of the line is all digits and its value
\* is at least since
Qualifies(line, since) ==
  LET fields == SplitOn(line, ":")
  IN Len(fields) >= 3 /\ IsDigit(fields[3]) /\ ToInt(fields[3]) >= since

QualifyingLines(output, since) ==
  IF output = None THEN <<>>
  ELSE SelectSeq(SplitLines(output), LAMBDA l : Qualifies(l, since))

\* the default of line 164 left in seconds
DefaultSince_Seconds(now) == now

\* lines 163-164: int(time.time())*1000, the current time in ms
DefaultSince(now) == now * 1000

\* lines 163-167: the call, on a session that connect_to_pod returned
SearchCall ==
  /\ UNCHANGED shellVars
  /\ UNCHANGED pingVars
  /\ UNCHANGED helperVars
  /\ spc = "idle" /\ pc = "idle" /\ session = "held" /\ ~closed
  /\ \E since \in Sinces \cup {0}, given \in BOOLEAN,
        timeout \in 0..MaxTimeout, iv \in 1..MaxInterval :
       /\ (since = 0) = ~given
       /\ sinceGiven' = given
       /\ start_timestamp' = IF given THEN since ELSE DefaultSince(clock)
       /\ end_time' = clock + timeout
       /\ s_timeout' = timeout
       /\ interval' = iv
  /\ startClock' = clock
  /\ spc' = "test"
  /\ UNCHANGED <<clock, sresult, npolls, lastStep, everQualified>>
  /\ UNCHANGED sessionVars

\* lines 169-193: the loop test holds; run the grep through
\* run_command_on_pod (lines 58-79), filter its output and return the
\* filtered lines if there are any
SearchPoll ==
  /\ UNCHANGED pingVars
  /\ UNCHANGED helperVars
  /\ spc = "test" /\ clock < end_time
  /\ \E r \in IF remoteEnd THEN NoResponse ELSE GrepResponses :
       LET pend == pending \o r.text
           rend == remoteEnd \/ r.end
       IN \E o \in ExpectOutcomes(buffer, pend, rend, flag_eof, TRUE, TRUE) :
          \E output \in {ProcessBefore(o.before, GrepLine)} :
          \E found \in {PollResult(output, start_timestamp)} :
            /\ buffer' = o.buffer
            /\ pending' = o.pending
            /\ remoteEnd' = rend
            /\ flag_eof' = o.eof
            /\ waitEnd' = o.kind
            /\ result' = output
            /\ everQualified' =
                 (everQualified
                    \/ QualifyingLines(output, start_timestamp) # <<>>)
            /\ IF found # None
                 THEN /\ sresult' = found
                      /\ spc' = "done"
                 ELSE /\ spc' = "sleep"
                      /\ UNCHANGED sresult
            /\ \E d \in IF o.kind = "timeout" THEN {ExpectTimeout}
                        ELSE 0..MaxPollDelay :
                 clock' = clock + d
  /\ full_cmd' = GrepLine
  /\ ShellTakes(GrepLine, ~remoteEnd)
  /\ lastOp' = "execute"
  /\ outcome' = "returned"
  /\ nsent' = nsent + 1
  /\ npolls' = npolls + 1
  /\ lastStep' = "poll"
  /\ UNCHANGED <<pc, session, closed, nclose, start_timestamp, end_time,
                 interval, sinceGiven, startClock, s_timeout>>

\* a sleep that grows with the number of polls made (linear backoff)
SearchSleep_Backoff ==
  /\ UNCHANGED shellVars
  /\ UNCHANGED pingVars
  /\ UNCHANGED helperVars
  /\ spc = "sleep"
  /\ clock' = clock + interval * npolls
  /\ spc' = "test"
  /\ lastStep' = "sleep"
  /\ UNCHANGED <<start_timestamp, end_time, interval, sresult, sinceGiven,
                 startClock, s_timeout, npolls, everQualified>>
  /\ UNCHANGED sessionVars

\* lines 195-196: time.sleep(interval)
SearchSleep ==
  /\ UNCHANGED shellVars
  /\ UNCHANGED pingVars
  /\ UNCHANGED helperVars
  /\ spc = "sleep"
  /\ clock' = clock + interval
  /\ spc' = "test"
  /\ lastStep' = "sleep"
  /\ UNCHANGED <<start_timestamp, end_time, interval, sresult, sinceGiven,
                 startClock, s_timeout, npolls, everQualified>>
  /\ UNCHANGED sessionVars

\* lines 169, 198-199: the loop test fails; return None
SearchGiveUp ==
  /\ UNCHANGED shellVars
  /\ UNCHANGED pingVars
  /\ UNCHANGED helperVars
  /\ spc = "test" /\ ~(clock < end_time)
  /\ sresult' = None
  /\ spc' = "done"
  /\ lastStep' = "exit"
  /\ UNCHANGED <<clock, start_timestamp, end_time, interval, sinceGiven,
                 startClock, s_timeout, npolls, everQualified>>
  /\ UNCHANGED sessionVars

\* a session as connect_to_pod returns it after a handshake that reached
\* the prompt, and no search call yet
InitSearch ==
  /\ pc = "idle"
  /\ session = "held"
  /\ closed = FALSE
  /\ flag_eof = FALSE
  /\ buffer = <<>>
  /\ pending = <<>>
  /\ remoteEnd = FALSE
  /\ full_cmd = <<>>
  /\ result = None
  /\ lastOp = "connect"
  /\ outcome = "returned"
  /\ waitEnd = "match"
  /\ nsent = 0
  /\ nclose = 0
  /\ SearchIdle
  /\ ProbeIdle
  /\ PingIdle
  /\ ShellIdle
  /\ SanitizeIdle

NextSearch ==
  \/ SearchCall
  \/ SearchPoll
  \/ SearchSleep
  \/ SearchGiveUp

SpecSearch == InitSearch /\ [][NextSearch]_vars

\* the directory the last workdir-prefixed line that succeeded left the
\* shell in; the start directory when there was none
LeftDir == IF lastCd = None THEN StartDir ELSE lastCd

\* C24: the command of every line sent runs in the directory left by the
\* last successful "cd <dir> &&" of the session: a line without workdir
\* runs in that directory, a line with a relative workdir in its
\* subdirectory of that name, whatever directory the session started in.
C24_WorkdirPersists ==
  [][(nsent' # nsent /\ ranIn' # NotRun) =>
       ranIn' = IF CdTarget(full_cmd') = <<>> THEN LeftDir
                ELSE Resolve(LeftDir, CdTarget(full_cmd'))]_vars

\* C24 witness: the second execute, without workdir, ran in the directory d
\* the first one changed to, and returned
C24_Witness ==
  /\ ExecReturned /\ nsent = 2
  /\ CdTarget(full_cmd) = <<>>
  /\ ranIn = <<"/", "d">> /\ ranIn # StartDir

(***************************************************************************)
(* Properties of search_logs_in_pod                                        *)
(***************************************************************************)
\* the lines of the output of the poll that has just been made
PolledLines == IF result = None THEN <<>> ELSE SplitLines(result)

\* the lines of the text the search returned
ResultLines == IF sresult = None THEN <<>> ELSE SplitLines(sresult)

\* C7: search returns at the first poll whose output has a qualifying line,
\* returning exactly the qualifying lines of that poll, in order, joined by
\* newlines, with no sleep or poll after it; it returns None only once the
\* deadline has passed and no poll had a qualifying line.
C7_ReturnsAtFirstQualifyingPoll ==
  /\ spc \in {"test", "sleep"} => ~everQualified
  /\ spc = "sleep" => QualifyingLines(result, start_timestamp) = <<>>
  /\ (spc = "done" /\ sresult # None) =>
       /\ lastStep = "poll"
       /\ QualifyingLines(result, start_timestamp) # <<>>
       /\ sresult = Join(QualifyingLines(result, start_timestamp), <<NL>>)
  /\ (spc = "done" /\ sresult = None) =>
       /\ lastStep = "exit"
       /\ clock >= end_time
       /\ ~everQualified

\* C7 witness: the second poll returned two qualifying lines
C7_Witness ==
  /\ spc = "done" /\ sresult # None
  /\ npolls = 2
  /\ Len(ResultLines) = 2

\* the line contains the search term, case-insensitively
ContainsTerm(line) ==
  \E i \in 1..Len(line) :
    /\ i + Len(SearchTerm) - 1 <= Len(line)
    /\ \A k \in 1..Len(SearchTerm) :
         ToLower(line[i + k - 1]) = ToLower(SearchTerm[k])

C9_SuppliedSinceFilter ==
  (sinceGiven /\ spc \in {"sleep", "done"} /\ lastStep = "poll") =>
     /\ \A i \in DOMAIN ResultLines :
          LET f == SplitOn(ResultLines[i], ":")
          IN Len(f) >= 3 /\ IsDigit(f[3]) /\ ToInt(f[3]) >= start_timestamp
     /\ \A i \in DOMAIN PolledLines :
          LET f == SplitOn(PolledLines[i], ":")
          IN /\ (Len(f) < 3 \/ ~IsDigit(f[3]) \/ ToInt(f[3]) < start_timestamp)
                  => PolledLines[i] \notin Range(ResultLines)
             /\ (Len(f) >= 3 /\ IsDigit(f[3]) /\ ToInt(f[3]) = start_timestamp)
                  => (spc = "done" /\ PolledLines[i] \in Range(ResultLines))

\* C9 witness: a poll with a line at exactly start_timestamp, which was
\* returned, and a line that was discarded
C9_Witness ==
  /\ sinceGiven /\ spc = "done" /\ sresult # None
  /\ \E i \in DOMAIN ResultLines :
       ToInt(SplitOn(ResultLines[i], ":")[3]) = start_timestamp
  /\ \E i \in DOMAIN PolledLines : PolledLines[i] \notin Range(ResultLines)

\* C10: search returns at most timeout seconds after the call.
C10_ReturnsWithinTimeout ==
  spc = "done" => clock - startClock <= s_timeout

\* C18: the search command is issued before the deadline is tested, so a
\* search that returned None has sent at least one command, for every
\* timeout >= 0 and timeout = 0 in particular.
C18_CommandBeforeDeadlineTest ==
  (spc = "done" /\ sresult = None) => npolls >= 1

\* math.ceil(a / b) for a >= 0, b > 0
CeilDiv(a, b) == (a + b - 1) \div b

\* C19: when the pattern never qualifies and the polls take no time (the
\* time elapsed is that of the sleeps alone, one after each poll), the
\* number of search commands issued before None is returned is
\* ceil(timeout / interval); and every sleep between two polls lasts
\* exactly interval seconds, whichever poll it follows (no backoff).
C19_PollCountAndFixedInterval ==
  /\ [](  (/\ spc = "done" /\ sresult = None
           /\ clock - startClock = npolls * interval)
        => npolls = CeilDiv(s_timeout, interval))
  /\ [][(spc = "sleep" /\ spc' # "sleep") => clock' - clock = interval]_vars

\* C19 witness: timeout 2 and interval 1, two polls that took no time and
\* found nothing, two sleeps, and the search gave up 2 seconds after the call
C19_Witness ==
  /\ spc = "done" /\ sresult = None /\ lastStep = "exit"
  /\ s_timeout = 2 /\ interval = 1
  /\ npolls = 2 /\ clock - startClock = 2

(***************************************************************************)
(* The probe helpers: one run_command_on_pod and the parsing of its result  *)
(***************************************************************************)
\* (directory, pattern) pairs of one verify_file_presence call
MaxPairs == 2
\* lines the remote shell prints in answer to the command line of a probe
MaxProbeLines == 2

\* What the remote shell may emit in answer to a command line whose output
\* is made of lines of vocab (echo is off): up to MaxProbeLines lines and
\* the prompt; or nothing for now; or the end of the stream
ShellResponses(vocab) ==
  { [text |-> Lines2Text(ls) \o PromptText, end |-> FALSE] :
      ls \in LineSeqs(vocab, MaxProbeLines) }
  \cup
  { [text |-> <<>>, end |-> e] : e \in BOOLEAN }

\* run_command_on_pod(child, line) (lines 58-79) when the remote shell
\* answers with one of responses and the answer is read whole before the
\* wait ends: the ways the call can end
ExecuteOutcomes(line, responses) ==
  UNION { { [exp |-> o,
             rend |-> remoteEnd \/ r.end,
             output |-> ProcessBefore(o.before, line)] :
            o \in { e \in ExpectOutcomes(buffer, pending \o r.text,
                                         remoteEnd \/ r.end, flag_eof,
                                         TRUE, TRUE) : e.pending = <<>> } } :
          r \in IF remoteEnd THEN NoResponse ELSE responses }

\* the child and the caller once the call has ended as x
Executed(x, line) ==
  /\ ShellTakes(line, ~remoteEnd)
  /\ buffer' = x.exp.buffer
  /\ pending' = x.exp.pending
  /\ remoteEnd' = x.rend
  /\ flag_eof' = x.exp.eof
  /\ waitEnd' = x.exp.kind
  /\ result' = x.output
  /\ full_cmd' = line
  /\ lastOp' = "execute"
  /\ outcome' = "returned"
  /\ nsent' = nsent + 1
  /\ UNCHANGED <<pc, session, closed, nclose>>

\* the caller holds an open child and has called no probe helper yet
ProbeCallable ==
  /\ pc = "idle" /\ session = "held" /\ ~closed
  /\ probe = "none"

(***************************************************************************)
(* verify_file_presence                                                    *)
(***************************************************************************)
Directory == <<"d">>
Pattern == <<"p">>

\* f"ls {directory} | grep -E '{pattern}' | wc -l"
CountCmd(directory, pattern) ==
  <<"l","s"," ">> \o directory \o <<" ","|"," ","g","r","e","p"," ","-","E"," ","'">>
    \o pattern \o <<"'"," ","|"," ","w","c"," ","-","l">>

\* index of the first digit of s at or after i (0 when there is none)
FirstDigitFrom(s, i) ==
  LET hits == { j \in i..Len(s) : s[j] \in Digits }
  IN IF hits = {} THEN 0
     ELSE CHOOSE a \in hits : \A b \in hits : a <= b

\* lines 215-216: int(match.group()) if re.search(r'\d+', output) else 0
FirstInt(output) ==
  LET i == FirstDigitFrom(output, 1)
  IN IF i = 0 THEN 0
     ELSE ToInt(SubSeq(output, i, SkipClass(output, i, Digits) - 1))

\* The lines the count command may print: a count, and the complaint of ls
\* about a missing directory
CountLines ==
  { <<"0">>, <<"1", "2">>, <<"l", "s", ":", " ", "d">> }

\* lines 207-210: the call, with 0..MaxPairs (directory, pattern) pairs
VerifyCall ==
  /\ UNCHANGED shellVars
  /\ UNCHANGED pingVars
  /\ UNCHANGED <<sessionVars, searchVars>>
  /\ ProbeCallable
  /\ probe' = "count"
  /\ probeArg' = None
  /\ probeValue' = <<>>
  /\ \E pairs \in 0..MaxPairs :
       /\ pairsLeft' = pairs
       /\ probeOutcome' = IF pairs = 0 THEN "returned" ELSE "none"
  /\ UNCHANGED <<raw, cleaned, previous, npasses>>

\* lines 211-226: one pair: run the count command, .strip() its result (an
\* AttributeError when that is None), record the count; return after the
\* last pair
VerifyStep ==
  /\ UNCHANGED pingVars
  /\ UNCHANGED searchVars
  /\ probe = "count" /\ pairsLeft > 0
  /\ \E x \in ExecuteOutcomes(CountCmd(Directory, Pattern),
                              ShellResponses(CountLines)) :
       /\ Executed(x, CountCmd(Directory, Pattern))
       /\ IF x.output = None
            THEN /\ probeOutcome' = "AttributeError"
                 /\ pairsLeft' = 0
                 /\ UNCHANGED probeValue
            ELSE /\ probeValue' = Append(probeValue, FirstInt(Strip(x.output)))
                 /\ pairsLeft' = pairsLeft - 1
                 /\ probeOutcome' = IF pairsLeft = 1 THEN "returned" ELSE "none"
  /\ UNCHANGED <<probe, probeArg, raw, cleaned, previous, npasses>>

(***************************************************************************)
(* check_ota_md5sum                                                        *)
(***************************************************************************)
\* {32} of the pattern of line 241
Md5Len == 32

\* [a-fA-F0-9]
HexChars ==
  Digits \cup {"a", "b", "c", "d", "e", "f", "A", "B", "C", "D", "E", "F"}

\* f"cd {directory} && md5sum {ota_version}"
Md5Cmd(directory, ota_version) ==
  <<"c","d"," ">> \o directory \o <<" ","&","&"," ","m","d","5","s","u","m"," ">>
    \o ota_version

\* re.match(r"^[a-fA-F0-9]{32}\s+", line)
Md5LineMatch(line) ==
  /\ Len(line) > Md5Len
  /\ \A i \in 1..Md5Len : line[i] \in HexChars
  /\ line[Md5Len + 1] \in Whitespace

\* str.split()[0] of a text that is not all whitespace
FirstToken(line) ==
  LET t == LStrip(line)
  IN SubSeq(t, 1, SkipClass(t, 1, {c \in Range(t) : c \notin Whitespace}) - 1)

\* lines 238-243: the first stripped line that matches, or None
RECURSIVE FirstMd5Line(_)
FirstMd5Line(lines) ==
  IF lines = <<>> THEN None
  ELSE IF Md5LineMatch(Strip(lines[1])) THEN Strip(lines[1])
  ELSE FirstMd5Line(Tail(lines))

Repeat(c, n) == [i \in 1..n |-> c]

\* a 32-character digest in mixed case
Digest == <<"A", "f">> \o Repeat("0", Md5Len - 2)

\* The lines md5sum may print: digest and file name, a digest of 31
\* characters, 32 hex characters with nothing after them, and its complaint
\* about a missing file
Md5Lines ==
  { Digest \o <<" ", " ", "e">>,
    Repeat("1", Md5Len - 1) \o <<" ", "e">>,
    Repeat("2", Md5Len),
    <<"m", "d", "5", "s", "u", "m", ":", " ", "e">> }

\* the OTA names a caller asks about
OtaVersions ==
  { <<"e", ".", "t", "a", "r", ".", "g", "z">>,
    <<"o", ".", "t", "a", "r", ".", "g", "z">> }

\* lines 234-250
CheckOtaMd5sum ==
  /\ UNCHANGED pingVars
  /\ UNCHANGED searchVars
  /\ ProbeCallable
  /\ probe' = "md5"
  /\ \E ota_version \in OtaVersions :
       /\ probeArg' = ota_version
       /\ \E x \in ExecuteOutcomes(Md5Cmd(Directory, ota_version),
                                   ShellResponses(Md5Lines)) :
            /\ Executed(x, Md5Cmd(Directory, ota_version))
            /\ IF x.output = None
                 THEN /\ probeOutcome' = "AttributeError"
                      /\ probeValue' = None
                 ELSE LET md5_line == FirstMd5Line(SplitLines(Strip(x.output)))
                      IN IF md5_line = None
                           THEN /\ probeOutcome' = "AssertionError"
                                /\ probeValue' = None
                           ELSE /\ probeOutcome' = "returned"
                                /\ probeValue' = FirstToken(md5_line)
  /\ UNCHANGED <<pairsLeft, raw, cleaned, previous, npasses>>

(***************************************************************************)
(* check_no_legacy_package_exists                                          *)
(***************************************************************************)
\* f"cd {directory} && find . -maxdepth 1 -type f -name '*.tar.gz' -printf '%f\n'"
\* (the \n of the f-string is a newline in the command line)
LegacyCmd(directory) ==
  <<"c","d"," ">> \o directory \o
  <<" ","&","&"," ","f","i","n","d"," ","."," ","-","m","a","x","d","e","p","t","h"," ","1",
    " ","-","t","y","p","e"," ","f"," ","-","n","a","m","e"," ","'","*",".","t","a","r",".","g","z","'",
    " ","-","p","r","i","n","t","f"," ","'","%","f",NL,"'">>

TarGz == <<".", "t", "a", "r", ".", "g", "z">>

\* str.endswith(suffix)
EndsWith(s, suffix) ==
  /\ Len(s) >= Len(suffix)
  /\ SubSeq(s, Len(s) - Len(suffix) + 1, Len(s)) = suffix

\* str.lstrip(chars)
RECURSIVE LStripChars(_, _)
LStripChars(s, chars) ==
  IF s # <<>> /\ s[1] \in chars THEN LStripChars(Tail(s), chars) ELSE s

\* line 264: [line.strip() for line in output.splitlines() if line.strip()]
RECURSIVE StrippedNonEmpty(_)
StrippedNonEmpty(lines) ==
  IF lines = <<>> THEN <<>>
  ELSE IF Strip(lines[1]) # <<>>
    THEN <<Strip(lines[1])>> \o StrippedNonEmpty(Tail(lines))
    ELSE StrippedNonEmpty(Tail(lines))

\* lines 267-271: the names of the lines that end with .tar.gz
RECURSIVE OtaFiles(_)
OtaFiles(lines) ==
  IF lines = <<>> THEN <<>>
  ELSE IF EndsWith(Strip(lines[1]), TarGz)
    THEN <<Strip(LStripChars(lines[1], {">", " "}))>> \o OtaFiles(Tail(lines))
    ELSE OtaFiles(Tail(lines))

\* lines 273-289 without the test of lines 285-286
LegacyVerdict_OthersAllowed(ota_files, ota_version) ==
  IF ota_files = <<>> THEN "AssertionError"
  ELSE IF ota_version \notin Range(ota_files) THEN "AssertionError"
  ELSE "returned"

\* lines 273-289: the three tests on ota_files
LegacyVerdict(ota_files, ota_version) ==
  IF ota_files = <<>> THEN "AssertionError"
  ELSE IF ota_version \notin Range(ota_files) THEN "AssertionError"
  ELSE IF \E i \in DOMAIN ota_files : ota_files[i] # ota_version
    THEN "AssertionError"
  ELSE "returned"

\* repr of a list of str: the names in quotes, separated by a comma and a
\* space, in brackets
ListRepr(files) ==
  LET RECURSIVE Items(_)
      Items(fs) ==
        IF fs = <<>> THEN <<>>
        ELSE <<"'">> \o fs[1] \o <<"'">>
             \o (IF Len(fs) > 1 THEN <<",", " ">> ELSE <<>>) \o Items(Tail(fs))
  IN <<"[">> \o Items(files) \o <<"]">>

\* line 275: "No OTA *.tar.gz files found in "
NoOtaPrefix ==
  <<"N","o"," ","O","T","A"," ","*",".","t","a","r",".","g","z"," ","f","i","l","e","s"," ","f",
    "o","u","n","d"," ","i","n"," ">>

\* line 275: ". Raw output:\n"
NoOtaMiddle ==
  <<"."," ","R","a","w"," ","o","u","t","p","u","t",":",NL>>

\* line 282: "Requested OTA '"
NotFoundPrefix ==
  <<"R","e","q","u","e","s","t","e","d"," ","O","T","A"," ","'">>

\* line 282: "' not found. Found: "
NotFoundMiddle ==
  <<"'"," ","n","o","t"," ","f","o","u","n","d","."," ","F","o","u","n","d",":"," ">>

\* line 286: "Unexpected OTA files present: "
UnexpectedPrefix ==
  <<"U","n","e","x","p","e","c","t","e","d"," ","O","T","A"," ","f","i","l","e","s"," ","p","r",
    "e","s","e","n","t",":"," ">>

\* line 279: [f for f in ota_files if f != ota_version]
OtherOtas(ota_files, ota_version) ==
  SelectSeq(ota_files, LAMBDA f : f # ota_version)

\* lines 273-286 with the whole list in the message of line 286
LegacyMessage_ListsAll(ota_files, ota_version, directory, output) ==
  IF ota_files = <<>>
    THEN NoOtaPrefix \o directory \o NoOtaMiddle \o output
  ELSE IF ota_version \notin Range(ota_files)
    THEN NotFoundPrefix \o ota_version \o NotFoundMiddle \o ListRepr(ota_files)
  ELSE UnexpectedPrefix \o ListRepr(ota_files)

\* lines 273-286: the message of the AssertionError raised
LegacyMessage(ota_files, ota_version, directory, output) ==
  IF ota_files = <<>>
    THEN NoOtaPrefix \o directory \o NoOtaMiddle \o output
  ELSE IF ota_version \notin Range(ota_files)
    THEN NotFoundPrefix \o ota_version \o NotFoundMiddle \o ListRepr(ota_files)
  ELSE UnexpectedPrefix \o ListRepr(OtherOtas(ota_files, ota_version))

\* The value Python's True is modelled by
PyTrue == <<"True">>

\* the continuation prompt the shell prints after the first line of the
\* command
PS2 == <<">", SP>>

\* The lines the find may print: the archives of OtaVersions, and a line
\* that is no archive name
ArchiveLines == OtaVersions \cup { <<"x">> }

\* What the remote shell may emit in answer to the find: the answer, with or
\* without the continuation prompt before it
LegacyResponses ==
  { [text |-> ps2 \o r.text, end |-> r.end] :
      r \in ShellResponses(ArchiveLines), ps2 \in {<<>>, PS2} }

\* lines 260-289
CheckNoLegacyPackageExists ==
  /\ UNCHANGED pingVars
  /\ UNCHANGED searchVars
  /\ ProbeCallable
  /\ probe' = "legacy"
  /\ \E ota_version \in OtaVersions :
       /\ probeArg' = ota_version
       /\ \E x \in ExecuteOutcomes(LegacyCmd(Directory), LegacyResponses) :
            /\ Executed(x, LegacyCmd(Directory))
            /\ IF x.output = None
                 THEN /\ probeOutcome' = "AttributeError"
                      /\ probeValue' = None
                 ELSE LET output == Strip(x.output)
                          lines == StrippedNonEmpty(SplitLines(output))
                          verdict == LegacyVerdict(OtaFiles(lines), ota_version)
                      IN /\ probeOutcome' = verdict
                         /\ probeValue' =
                              IF verdict = "returned" THEN PyTrue
                              ELSE LegacyMessage(OtaFiles(lines), ota_version,
                                                 Directory, output)
  /\ UNCHANGED <<pairsLeft, raw, cleaned, previous, npasses>>

(***************************************************************************)
(* validate_services_uptime_diff                                           *)
(***************************************************************************)
\* f"cd {directory} && supervisorctl status *"
UptimeCmd(directory) ==
  <<"c","d"," ">> \o directory \o
  <<" ","&","&"," ","s","u","p","e","r","v","i","s","o","r","c","t","l"," ",
    "s","t","a","t","u","s"," ","*">>

\* the pieces of the pattern of line 316
Ws == [t |-> "ws", v |-> <<>>]
Num == [t |-> "digits", v |-> <<>>]
Lit(v) == [t |-> "lit", v |-> v]

\* \s+RUNNING\s+pid\s+\d+,\s+uptime\s+
RunningPattern ==
  << Ws, Lit(<<"R","U","N","N","I","N","G">>), Ws, Lit(<<"p","i","d">>), Ws,
     Num, Lit(<<",">>), Ws, Lit(<<"u","p","t","i","m","e">>), Ws >>

\* \d+:\d+:\d+
UptimePattern == << Num, Lit(<<":">>), Num, Lit(<<":">>), Num >>

\* index after the match of the pieces pat at s[i..], or 0 when there is
\* none (a run of \s or \d is followed by a piece that cannot start with a
\* character of the run, so the greedy match is the only one)
RECURSIVE MatchPieces(_, _, _)
MatchPieces(s, i, pat) ==
  IF pat = <<>> THEN i
  ELSE LET piece == pat[1]
           j == IF piece.t = "lit"
                  THEN IF /\ i + Len(piece.v) - 1 <= Len(s)
                          /\ SubSeq(s, i, i + Len(piece.v) - 1) = piece.v
                         THEN i + Len(piece.v) ELSE 0
                  ELSE LET cls == IF piece.t = "ws" THEN Whitespace ELSE Digits
                       IN IF i <= Len(s) /\ s[i] \in cls
                            THEN SkipClass(s, i, cls) ELSE 0
       IN IF j = 0 THEN 0 ELSE MatchPieces(s, j, Tail(pat))

\* uptime_pattern.search(line).group(2), or None when there is no match:
\* (.*?) takes the shortest prefix after which the rest matches
UptimeOf(line) ==
  LET uptimeEnd(i) ==
        LET j == MatchPieces(line, i, RunningPattern)
        IN IF j = 0 THEN 0 ELSE MatchPieces(line, j, UptimePattern)
      starts == { i \in 1..Len(line) : uptimeEnd(i) # 0 }
  IN IF starts = {} THEN None
     ELSE LET i == CHOOSE a \in starts : \A b \in starts : a <= b
          IN SubSeq(line, MatchPieces(line, i, RunningPattern),
                    uptimeEnd(i) - 1)

\* lines 326-327: h, m, s = map(int, uptime_str.split(':'))
TotalSeconds(uptime_str) ==
  LET f == SplitOn(uptime_str, ":")
  IN ToInt(f[1]) * 3600 + ToInt(f[2]) * 60 + ToInt(f[3])

\* lines 321-330: uptimes_in_seconds for the lines of output
RECURSIVE UptimesInSeconds(_)
UptimesInSeconds(lines) ==
  IF lines = <<>> THEN <<>>
  ELSE IF UptimeOf(lines[1]) # None
    THEN <<TotalSeconds(UptimeOf(lines[1]))>> \o UptimesInSeconds(Tail(lines))
    ELSE UptimesInSeconds(Tail(lines))

SeqMax(q) == CHOOSE x \in Range(q) : \A y \in Range(q) : y <= x
SeqMin(q) == CHOOSE x \in Range(q) : \A y \in Range(q) : x <= y

\* the test of line 351 with the threshold itself refused
SpreadExceeds_Inclusive(diff, max_diff_seconds) == diff >= max_diff_seconds

\* line 351: diff > max_diff_seconds
SpreadExceeds(diff, max_diff_seconds) == diff > max_diff_seconds

\* a status row of supervisorctl and what it says
StatusRow(name, state, pid, h, mm, ss) ==
  [ text |-> name \o <<" ">> \o state \o <<" ", "p","i","d"," ">> \o pid
               \o <<",", " ", "u","p","t","i","m","e"," ">> \o h \o <<":">>
               \o mm \o <<":">> \o ss,
    running |-> state = <<"R","U","N","N","I","N","G">>,
    seconds |-> 3600 * ToInt(h) + 60 * ToInt(mm) + ToInt(ss) ]

\* The rows the status command may print: services running for 58 s, 60 s
\* and one hour, and one that is not running
StatusRows ==
  { StatusRow(<<"a">>, <<"R","U","N","N","I","N","G">>, <<"1">>, <<"0">>, <<"0","0">>, <<"5","8">>),
    StatusRow(<<"b">>, <<"R","U","N","N","I","N","G">>, <<"2">>, <<"0">>, <<"0","1">>, <<"0","0">>),
    StatusRow(<<"c">>, <<"R","U","N","N","I","N","G">>, <<"3">>, <<"1">>, <<"0","0">>, <<"0","0">>),
    [ text |-> <<"s"," ","S","T","O","P","P","E","D"," ","N","o","t"," ",
                 "s","t","a","r","t","e","d">>,
      running |-> FALSE, seconds |-> 0 ] }

StatusLines == { r.text : r \in StatusRows }

\* the values a caller passes for max_diff_seconds
MaxDiffs == { 1, 2 }

\* lines 313-356
ValidateServicesUptimeDiff ==
  /\ UNCHANGED pingVars
  /\ UNCHANGED searchVars
  /\ ProbeCallable
  /\ probe' = "uptime"
  /\ probeValue' = None
  /\ \E max_diff_seconds \in MaxDiffs :
       /\ probeArg' = max_diff_seconds
       /\ \E x \in ExecuteOutcomes(UptimeCmd(Directory),
                                   ShellResponses(StatusLines)) :
            /\ Executed(x, UptimeCmd(Directory))
            /\ IF x.output = None
                 THEN probeOutcome' = "AttributeError"
                 ELSE LET uptimes_in_seconds ==
                            UptimesInSeconds(SplitLines(x.output))
                      IN IF uptimes_in_seconds = <<>>
                           THEN probeOutcome' = "returned"
                           ELSE IF SpreadExceeds(SeqMax(uptimes_in_seconds)
                                                   - SeqMin(uptimes_in_seconds),
                                                 max_diff_seconds)
                             THEN probeOutcome' = "AssertionError"
                             ELSE probeOutcome' = "returned"
  /\ UNCHANGED <<pairsLeft, raw, cleaned, previous, npasses>>

\* a session as connect_to_pod returns it after a handshake that reached
\* the prompt, and no helper called yet
(***************************************************************************)
(* run_command_on_pod on a session with the echo switched off              *)
(***************************************************************************)
\* The lines a command may print: a line with the text of the command line
\* itself, or another line
OwnLines(line) == { line, <<"1">> }

\* lines 58-79, the shell having taken "stty -echo" (line 25): what is read
\* before the prompt is what the command printed
RunCommandOnPod ==
  /\ UNCHANGED pingVars
  /\ UNCHANGED searchVars
  /\ ProbeCallable
  /\ probe' = "run"
  /\ \E cmd \in Cmds, directory \in Dirs :
       \E x \in ExecuteOutcomes(FullCmd(cmd, directory),
                                ShellResponses(OwnLines(FullCmd(cmd, directory)))) :
         /\ Executed(x, FullCmd(cmd, directory))
         /\ probeArg' = x.exp.before
         /\ probeValue' = x.output
         /\ probeOutcome' = "returned"
  /\ UNCHANGED <<pairsLeft, raw, cleaned, previous, npasses>>

InitProbe == InitSearch

NextProbe ==
  \/ RunCommandOnPod
  \/ VerifyCall
  \/ VerifyStep
  \/ CheckOtaMd5sum
  \/ CheckNoLegacyPackageExists
  \/ ValidateServicesUptimeDiff

SpecProbe == InitProbe /\ [][NextProbe]_vars

(***************************************************************************)
(* Properties of the probe helpers                                         *)
(***************************************************************************)
\* C11: verify_file_presence never fails: for every pair it records the
\* first integer of the output of the count command, and 0 when the execute
\* returned nothing or its output holds no integer.
C11_CountNeverFails ==
  probe = "count" =>
    /\ probeOutcome \in {"none", "returned"}
    /\ lastOp = "execute" =>
         /\ probeValue # <<>>
         /\ probeValue[Len(probeValue)] =
              IF result = None THEN 0 ELSE FirstInt(result)

\* the output lines that start with 32 hex characters and a whitespace
DigestLines == { i \in DOMAIN PolledLines : Md5LineMatch(PolledLines[i]) }

\* C12: check_ota_md5sum returns the leading 32 hex characters of the first
\* output line that starts with 32 hex characters followed by whitespace;
\* when there is no such line, also when the execute returned nothing, it
\* fails with the parse error (AssertionError) and returns no value.
C12_ChecksumOrParseError ==
  probe = "md5" =>
    IF DigestLines # {}
      THEN /\ probeOutcome = "returned"
           /\ probeValue =
                Take(PolledLines[CHOOSE i \in DigestLines :
                                   \A k \in DigestLines : i <= k], Md5Len)
      ELSE /\ probeOutcome = "AssertionError"
           /\ probeValue = None

\* the name on a line of the listing: the line without the continuation
\* prompt the shell may have put before it
ArchiveNameOf(line) ==
  IF Len(line) >= 2 /\ Take(line, 2) = PS2 THEN Strip(Drop(line, 2)) ELSE line

\* the archive names that the listing lists
ListedArchives ==
  { ArchiveNameOf(Strip(PolledLines[i])) :
      i \in { k \in DOMAIN PolledLines : EndsWith(Strip(PolledLines[k]), TarGz) } }

\* C13: check_no_legacy_package_exists returns True exactly when the set of
\* *.tar.gz names listed is {ota_version}; otherwise (no archive, ota_version
\* absent, another archive beside it) it raises.
C13_OnlyExpectedArchive ==
  probe = "legacy" =>
    /\ (probeOutcome = "returned" /\ probeValue = PyTrue)
         <=> ListedArchives = {probeArg}
    /\ ListedArchives # {probeArg} =>
         probeOutcome \in {"AssertionError", "AttributeError"}

\* C13 witness: True was returned for a listing of two lines whose first
\* carries the continuation prompt
C13_Witness ==
  /\ probe = "legacy" /\ probeOutcome = "returned"
  /\ Len(PolledLines) = 2
  /\ PolledLines[1] = PS2 \o probeArg

\* the archive names that the listing lists, in the order of the listing
ListedArchiveSeq ==
  LET ends == SelectSeq(PolledLines, LAMBDA l : EndsWith(Strip(l), TarGz))
  IN [i \in DOMAIN ends |-> ArchiveNameOf(Strip(ends[i]))]

\* s begins with prefix
StartsWith(s, prefix) ==
  Len(s) >= Len(prefix) /\ SubSeq(s, 1, Len(prefix)) = prefix

\* C21: when ota_version is listed together with other archives,
\* check_no_legacy_package_exists raises the unexpected-file AssertionError,
\* whose message lists exactly the other archive names; that condition is
\* raised in no other case; the not-found condition is raised whenever
\* ota_version is not listed and some archive is; and the no-archive
\* condition is raised only when no archive is listed.
C21_UnexpectedListsOthers ==
  probe = "legacy" =>
    LET names == ListedArchiveSeq
        others == SelectSeq(names, LAMBDA f : f # probeArg)
        present == probeArg \in Range(names)
        raised == probeOutcome = "AssertionError"
    IN /\ (present /\ others # <<>>) =>
            (raised /\ probeValue = UnexpectedPrefix \o ListRepr(others))
       /\ (raised /\ StartsWith(probeValue, UnexpectedPrefix)) =>
            (present /\ others # <<>>)
       /\ (~present /\ names # <<>>) =>
            (raised /\ StartsWith(probeValue, NotFoundPrefix))
       /\ (raised /\ StartsWith(probeValue, NoOtaPrefix)) => names = <<>>

\* C21 witness: the listing is e.tar.gz and o.tar.gz, e.tar.gz is expected,
\* and the AssertionError raised says: Unexpected OTA files present:
\* [o.tar.gz]
C21_Witness ==
  /\ probe = "legacy" /\ probeOutcome = "AssertionError"
  /\ probeArg = <<"e", ".", "t", "a", "r", ".", "g", "z">>
  /\ ListedArchiveSeq = << <<"e", ".", "t", "a", "r", ".", "g", "z">>,
                           <<"o", ".", "t", "a", "r", ".", "g", "z">> >>
  /\ probeValue = UnexpectedPrefix \o
                    <<"[", "'", "o", ".", "t", "a", "r", ".", "g", "z", "'", "]">>

\* the uptimes, in seconds, of the rows of the status table that are RUNNING
RunningSeconds ==
  { r.seconds : r \in { q \in StatusRows :
                          q.running /\ q.text \in Range(PolledLines) } }

Spread(S) ==
  (CHOOSE x \in S : \A y \in S : y <= x) - (CHOOSE x \in S : \A y \in S : x <= y)

\* C14: with at least one RUNNING row, validate_services_uptime_diff raises
\* exactly when max - min of the uptimes of the RUNNING rows, each taken as
\* h*3600 + m*60 + s seconds, is greater than max_diff_seconds; a spread
\* equal to max_diff_seconds passes.
C14_FailsIffSpreadGreater ==
  (probe = "uptime" /\ RunningSeconds # {}) =>
     IF Spread(RunningSeconds) > probeArg
       THEN probeOutcome = "AssertionError"
       ELSE probeOutcome = "returned"

\* C14 witness: two RUNNING rows whose spread equals max_diff_seconds passed
C14_Witness ==
  /\ probe = "uptime" /\ probeOutcome = "returned"
  /\ Cardinality(RunningSeconds) = 2
  /\ Spread(RunningSeconds) = probeArg

\* C15: when the status query yields no RUNNING row, also when the execute
\* returned nothing, validate_services_uptime_diff returns without raising.
C15_EmptyTableReturns ==
  (probe = "uptime" /\ RunningSeconds = {}) =>
     (probeOutcome = "returned" /\ probeValue = None)

\* the lines of a text that are not blank
NonBlankLines(text) ==
  SelectSeq(SplitLines(text), LAMBDA l : Strip(l) # <<>>)

\* C23: with the echo switched off and the wait ended by the prompt, the
\* text an execute returns holds every line the command printed: no line
\* of the command's own output is dropped, a first line equal to the
\* command line included.
C23_OwnOutputKept ==
  (probe = "run" /\ waitEnd = "match") =>
     NonBlankLines(IF probeValue = None THEN <<>> ELSE probeValue)
       = NonBlankLines(probeArg)

(***************************************************************************)
(* clean_output applied to a text and to its own result                    *)
(***************************************************************************)
\* pieces a text given to clean_output is made of
MaxPieces == 6
\* times clean_output is applied, each time to the result of the last
MaxPasses == 2

\* The pieces of the texts: ESC, [, @, space, newline, and the letters
\* that make a prompt banner with @
Pieces ==
  { <<ESC>>, <<"[">>, <<"@">>, <<SP>>, <<NL>>, <<"o", "o", "t">> }

\* the texts of up to n pieces
Texts(n) == { Join(ps, <<>>) : ps \in LineSeqs(Pieces, n) }

\* lines 130-142: output = clean_output(output)
Sanitize ==
  /\ UNCHANGED shellVars
  /\ UNCHANGED pingVars
  /\ UNCHANGED <<sessionVars, searchVars>>
  /\ npasses < MaxPasses
  /\ \E output \in { IF npasses = 0 THEN raw ELSE cleaned } :
       /\ previous' = output
       /\ cleaned' = clean_output(output)
  /\ npasses' = npasses + 1
  /\ UNCHANGED <<probe, pairsLeft, probeArg, probeValue, probeOutcome, raw>>

\* no child, and a text for clean_output
InitSanitize ==
  /\ pc = "idle"
  /\ session = "none"
  /\ closed = FALSE
  /\ flag_eof = FALSE
  /\ buffer = <<>>
  /\ pending = <<>>
  /\ remoteEnd = FALSE
  /\ full_cmd = <<>>
  /\ result = None
  /\ lastOp = "none"
  /\ outcome = "none"
  /\ waitEnd = "none"
  /\ nsent = 0
  /\ nclose = 0
  /\ SearchIdle
  /\ ProbeIdle
  /\ PingIdle
  /\ ShellIdle
  /\ raw \in Texts(MaxPieces)
  /\ cleaned = <<>>
  /\ previous = <<>>
  /\ npasses = 0

NextSanitize == Sanitize

SpecSanitize == InitSanitize /\ [][NextSanitize]_vars

(***************************************************************************)
(* Properties of clean_output                                              *)
(***************************************************************************)
\* C16: clean_output is idempotent: applied to its own result it returns
\* that result unchanged.
C16_SanitizeIdempotent ==
  npasses >= 2 => cleaned = previous

\* C20: the text clean_output returns holds no control sequence
\* ESC [@-_] [0-?]* [ -/]* [@-~], no two newlines in a row and no leading or
\* trailing whitespace.
C20_SanitizedTextIsClean ==
  npasses >= 1 =>
    /\ \A i \in DOMAIN cleaned : AnsiMatchEnd(cleaned, i) = 0
    /\ \A i \in DOMAIN cleaned :
         ~(cleaned[i] = NL /\ i < Len(cleaned) /\ cleaned[i + 1] = NL)
    /\ cleaned # <<>> =>
         (cleaned[1] \notin Whitespace /\ cleaned[Len(cleaned)] \notin Whitespace)

(***************************************************************************)
(* wait_for_ping                                                           *)
(***************************************************************************)
\* seconds one ping attempt may take: ping -c 1 -W 1 waits at most one
\* second for the reply
MaxPingTime == 1

\* the timeout argument of wait_for_ping is in 0..MaxWaitTimeout
MaxWaitTimeout == 4
\* its interval argument is in 1..MaxWaitInterval
MaxWaitInterval == 2

\* how subprocess.run of the ping may end: return code 0, another return
\* code, or an exception of class Exception (the ping program is missing,
\* cannot be started, ...)
PingEnds == {"ok", "fail", "exception"}

\* lines 93-100: the call; start_time = time.time()
WaitForPingCall ==
  /\ UNCHANGED shellVars
  /\ UNCHANGED <<sessionVars, searchVars, helperVars>>
  /\ wpc = "idle"
  /\ \E timeout \in 0..MaxWaitTimeout, iv \in 1..MaxWaitInterval :
       /\ w_timeout' = timeout
       /\ w_interval' = iv
  /\ start_time' = clock
  /\ wpc' = "test"
  /\ UNCHANGED <<w_result, w_outcome, nattempts, lastAttempt, succeeded>>

\* lines 101-113 with no except clause: the exception of an attempt leaves
\* wait_for_ping
WaitForPingAttempt_Propagates ==
  /\ UNCHANGED shellVars
  /\ UNCHANGED <<sessionVars, helperVars>>
  /\ wpc = "test" /\ clock - start_time < w_timeout
  /\ \E end \in PingEnds, d \in 0..MaxPingTime :
       /\ clock' = clock + d
       /\ lastAttempt' = end
       /\ succeeded' = (succeeded \/ end = "ok")
       /\ IF end = "ok"
            THEN /\ w_result' = "True"
                 /\ w_outcome' = "returned"
                 /\ wpc' = "done"
            ELSE IF end = "exception"
            THEN /\ w_outcome' = "raised"
                 /\ wpc' = "done"
                 /\ UNCHANGED w_result
            ELSE /\ wpc' = "sleep"
                 /\ UNCHANGED <<w_result, w_outcome>>
  /\ nattempts' = nattempts + 1
  /\ UNCHANGED <<spc, start_timestamp, end_time, interval, sresult, sinceGiven,
                 startClock, s_timeout, npolls, lastStep, everQualified>>
  /\ UNCHANGED <<start_time, w_timeout, w_interval>>

\* lines 101-113: the loop test holds; one ping attempt. Return code 0
\* returns True; another return code, or an exception (caught at line 112),
\* goes on to the sleep
WaitForPingAttempt ==
  /\ UNCHANGED shellVars
  /\ UNCHANGED <<sessionVars, helperVars>>
  /\ wpc = "test" /\ clock - start_time < w_timeout
  /\ \E end \in PingEnds, d \in 0..MaxPingTime :
       /\ clock' = clock + d
       /\ lastAttempt' = end
       /\ succeeded' = (succeeded \/ end = "ok")
       /\ IF end = "ok"
            THEN /\ w_result' = "True"
                 /\ w_outcome' = "returned"
                 /\ wpc' = "done"
            ELSE /\ wpc' = "sleep"
                 /\ UNCHANGED <<w_result, w_outcome>>
  /\ nattempts' = nattempts + 1
  /\ UNCHANGED <<spc, start_timestamp, end_time, interval, sresult, sinceGiven,
                 startClock, s_timeout, npolls, lastStep, everQualified>>
  /\ UNCHANGED <<start_time, w_timeout, w_interval>>

\* line 115: time.sleep(interval)
WaitForPingSleep ==
  /\ UNCHANGED shellVars
  /\ UNCHANGED <<sessionVars, helperVars>>
  /\ wpc = "sleep"
  /\ clock' = clock + w_interval
  /\ wpc' = "test"
  /\ UNCHANGED <<spc, start_timestamp, end_time, interval, sresult, sinceGiven,
                 startClock, s_timeout, npolls, lastStep, everQualified>>
  /\ UNCHANGED <<start_time, w_timeout, w_interval, w_result, w_outcome,
                 nattempts, lastAttempt, succeeded>>

\* lines 101, 117-118: the loop test fails; return False
WaitForPingGiveUp ==
  /\ UNCHANGED shellVars
  /\ UNCHANGED <<sessionVars, searchVars, helperVars>>
  /\ wpc = "test" /\ ~(clock - start_time < w_timeout)
  /\ w_result' = "False"
  /\ w_outcome' = "returned"
  /\ wpc' = "done"
  /\ UNCHANGED <<start_time, w_timeout, w_interval, nattempts, lastAttempt,
                 succeeded>>

InitPing == Init

NextPing ==
  \/ WaitForPingCall
  \/ WaitForPingAttempt
  \/ WaitForPingSleep
  \/ WaitForPingGiveUp

\* the interpreter keeps running wait_for_ping: subprocess.run of a ping
\* with -c 1 -W 1 and time.sleep(interval) both return
SpecPing == InitPing /\ [][NextPing]_vars /\ WF_vars(NextPing)

(***************************************************************************)
(* Properties of wait_for_ping                                             *)
(***************************************************************************)
\* C22: wait_for_ping returns True at the first ping attempt that succeeds;
\* it returns False only when at least timeout seconds have passed since
\* the call and no attempt succeeded; an exception of a ping attempt is a
\* failed attempt and never leaves wait_for_ping; and every call returns.
C22_PingWait ==
  /\ [](wpc = "done" =>
         /\ w_outcome = "returned"
         /\ w_result \in {"True", "False"}
         /\ (w_result = "True") <=> succeeded
         /\ w_result = "False" =>
              (clock - start_time >= w_timeout /\ ~succeeded))
  /\ [][(nattempts' # nattempts /\ lastAttempt' = "ok") =>
           (wpc' = "done" /\ w_result' = "True" /\ w_outcome' = "returned")]_vars
  /\ [][(nattempts' # nattempts /\ lastAttempt' = "exception") =>
           (wpc' = "sleep" /\ w_outcome' = "none")]_vars
  /\ (wpc = "test") ~> (wpc = "done")

\* C22 witness: a first attempt failed (by its return code or by an
\* exception), the second succeeded and True was returned before the
\* timeout
C22_Witness ==
  /\ wpc = "done" /\ w_result = "True" /\ w_outcome = "returned"
  /\ nattempts = 2 /\ lastAttempt = "ok"
  /\ clock - start_time < w_timeout

====
